---- MODULE Spec2Model ----
(***************************************************************************)
(* Brand / locale resolution and cache invalidation on mutation of the     *)
(* nextjs-tutorial application.                                            *)
(*                                                                         *)
(* JavaScript values that may be undefined or null are records tagged by   *)
(* "type"; a JavaScript string s is JSString(s).  A BrandConfig object is  *)
(* a record with the fields of the BrandConfig interface.                  *)
(***************************************************************************)
EXTENDS Integers, Sequences, FiniteSets, TLC

VARIABLES
    NEXT_PUBLIC_BRAND,  \* process.env.NEXT_PUBLIC_BRAND, fixed at build time
    brandsObj,          \* the object bound to the constant `brands`
    cfg,                \* outcome of the last call of the request-config function
    page,               \* outcome of the last HomePage render
    css,                \* outcome of the last getBrandThemeCSS call
    switcher,           \* outcome of the last LocaleSwitcher render
    served,             \* outcome of the last call of a read-only handler
    router,             \* the browser's pathname and the last router.push
    ui,                 \* the state of a mounted ApiExample or ThirdPartyApiExample
    inv,                \* inv[p]: the mutation handler invocation of request context p
    stale               \* paths the cache layer has been told are stale

vars == <<NEXT_PUBLIC_BRAND, brandsObj, cfg, page, css, switcher, served, router, ui, inv, stale>>

resolveVars == <<NEXT_PUBLIC_BRAND, brandsObj, cfg, page, css, switcher>>

mutateVars == <<inv, stale>>

clientVars == <<ui>>

-----------------------------------------------------------------------------
(* JavaScript values                                                       *)

undefined == [type |-> "undefined"]

null == [type |-> "null"]

JSString(s) == [type |-> "string", val |-> s]

\* A member inherited from Object.prototype (a function or the prototype
\* object itself): an object that is no BrandConfig.
Inherited(key) == [type |-> "object", inheritedKey |-> key]

IsBrandConfig(v) == "id" \in DOMAIN v

\* ToBoolean: undefined, null and the empty string are falsy; every object
\* and every non-empty string is truthy.
Truthy(v) ==
    IF IsBrandConfig(v) THEN TRUE
    ELSE CASE v.type = "undefined" -> FALSE
           [] v.type = "null"      -> FALSE
           [] v.type = "string"    -> v.val # ""
           [] OTHER                -> TRUE

\* Names every plain object inherits from Object.prototype (a sample).
ObjectPrototypeKeys == {"constructor", "toString", "__proto__", "hasOwnProperty"}

\* obj[key] on an object literal: own property, else the prototype chain,
\* else undefined.
GetProperty(obj, key) ==
    IF key \in DOMAIN obj THEN obj[key]
    ELSE IF key \in ObjectPrototypeKeys THEN Inherited(key)
    ELSE undefined

\* value.field for a string-valued field of BrandConfig; any other object has
\* no such property.
StringField(v, field) ==
    IF IsBrandConfig(v) THEN JSString(v[field]) ELSE undefined

\* Array.prototype.includes on a list of strings.
Includes(list, v) == \E i \in 1..Len(list) : JSString(list[i]) = v

-----------------------------------------------------------------------------
(* src/config/brands.ts                                                    *)

BrandIds == {"brand-a", "brand-b", "brand-c"}

\* brands with the default locale of brand-b outside its supported list.
brands_DefaultNotSupported ==
    [k \in BrandIds |->
        CASE k = "brand-a" ->
               [id |-> "brand-a", name |-> "Brand A",
                primaryColor |-> "#3b82f6", secondaryColor |-> "#1e40af",
                accentColor |-> "#60a5fa", logo |-> "/logos/brand-a.svg",
                defaultLocale |-> "en", supportedLocales |-> <<"en", "es", "fr">>]
          [] k = "brand-b" ->
               [id |-> "brand-b", name |-> "Brand B",
                primaryColor |-> "#10b981", secondaryColor |-> "#059669",
                accentColor |-> "#34d399", logo |-> "/logos/brand-b.svg",
                defaultLocale |-> "fr", supportedLocales |-> <<"en", "de", "it">>]
          [] k = "brand-c" ->
               [id |-> "brand-c", name |-> "Brand C",
                primaryColor |-> "#f59e0b", secondaryColor |-> "#d97706",
                accentColor |-> "#fbbf24", logo |-> "/logos/brand-c.svg",
                defaultLocale |-> "en", supportedLocales |-> <<"en", "ja", "zh">>]]

brands ==
    [k \in BrandIds |->
        CASE k = "brand-a" ->
               [id |-> "brand-a", name |-> "Brand A",
                primaryColor |-> "#3b82f6", secondaryColor |-> "#1e40af",
                accentColor |-> "#60a5fa", logo |-> "/logos/brand-a.svg",
                defaultLocale |-> "en", supportedLocales |-> <<"en", "es", "fr">>]
          [] k = "brand-b" ->
               [id |-> "brand-b", name |-> "Brand B",
                primaryColor |-> "#10b981", secondaryColor |-> "#059669",
                accentColor |-> "#34d399", logo |-> "/logos/brand-b.svg",
                defaultLocale |-> "en", supportedLocales |-> <<"en", "de", "it">>]
          [] k = "brand-c" ->
               [id |-> "brand-c", name |-> "Brand C",
                primaryColor |-> "#f59e0b", secondaryColor |-> "#d97706",
                accentColor |-> "#fbbf24", logo |-> "/logos/brand-c.svg",
                defaultLocale |-> "en", supportedLocales |-> <<"en", "ja", "zh">>]]

\* const brandId = process.env.NEXT_PUBLIC_BRAND || 'brand-a'
BrandIdOf(raw) == IF Truthy(raw) THEN raw.val ELSE "brand-a"

\* ResolveBrand that ignores the identifier.
ResolveBrand_AlwaysDefault(table, raw) == table["brand-a"]

\* return brands[brandId] || brands['brand-a']
ResolveBrand(table, raw) ==
    LET found == GetProperty(table, BrandIdOf(raw))
    IN  IF Truthy(found) THEN found ELSE table["brand-a"]

getCurrentBrand == ResolveBrand(brandsObj, NEXT_PUBLIC_BRAND)

\* `${value}` in a template literal.
Interpolate(v) == IF v.type = "string" THEN v.val ELSE "undefined"

\* getBrandThemeCSS(brand): the three custom properties of the brand.
ThemeCSS(brand) ==
    "--brand-primary: " \o Interpolate(StringField(brand, "primaryColor")) \o "; " \o
    "--brand-secondary: " \o Interpolate(StringField(brand, "secondaryColor")) \o "; " \o
    "--brand-accent: " \o Interpolate(StringField(brand, "accentColor")) \o ";"

NotGenerated == [generated |-> FALSE, text |-> ""]

\* The locale layout applies the theme of the current brand.
GetBrandThemeCSS ==
    /\ css' = [generated |-> TRUE, text |-> ThemeCSS(getCurrentBrand)]
    /\ UNCHANGED <<NEXT_PUBLIC_BRAND, brandsObj, cfg, page, switcher, served, router, clientVars, mutateVars>>

-----------------------------------------------------------------------------
(* src/i18n/config.ts                                                      *)

\* allLocales with a locale no brand supports.
allLocales_WithPortuguese == <<"en", "es", "fr", "de", "it", "ja", "zh", "pt">>

allLocales == <<"en", "es", "fr", "de", "it", "ja", "zh">>

defaultLocale == "en"

\* currentBrand.supportedLocales: the list of a BrandConfig, undefined on
\* any other object.
getBrandLocales ==
    IF IsBrandConfig(getCurrentBrand)
    THEN [type |-> "array", items |-> getCurrentBrand.supportedLocales]
    ELSE undefined

\* The translation catalogs src/i18n/messages/<locale>.json of the project.
MessageCatalogs == {"en", "es", "fr"}

-----------------------------------------------------------------------------
(* src/i18n/request.ts                                                     *)

\* brand.defaultLocale || defaultLocale
FallbackLocale ==
    IF Truthy(StringField(getCurrentBrand, "defaultLocale"))
    THEN StringField(getCurrentBrand, "defaultLocale")
    ELSE JSString(defaultLocale)

\* ResolveLocale validating against allLocales, not the brand's list.
ResolveLocale_ValidatesAllLocales(requestLocale) ==
    IF Truthy(requestLocale) /\ Includes(allLocales, requestLocale)
    THEN [error |-> "none", locale |-> requestLocale]
    ELSE [error |-> "none", locale |-> FallbackLocale]

\* ResolveLocale that never keeps the requested locale.
ResolveLocale_AlwaysDefault(requestLocale) ==
    [error |-> "none", locale |-> FallbackLocale]

\* ResolveLocale without the membership test.
ResolveLocale_NoValidation(requestLocale) ==
    IF Truthy(requestLocale)
    THEN [error |-> "none", locale |-> requestLocale]
    ELSE [error |-> "none", locale |-> FallbackLocale]

\* Lines 7-17: the locale the callback settles on, or the TypeError of
\* brandLocales.includes when brandLocales is undefined.
ResolveLocale(requestLocale) ==
    IF ~Truthy(requestLocale)
    THEN [error |-> "none", locale |-> FallbackLocale]
    ELSE IF getBrandLocales = undefined
    THEN [error |-> "TypeError", locale |-> undefined]
    ELSE IF ~Includes(getBrandLocales.items, requestLocale)
    THEN [error |-> "none", locale |-> FallbackLocale]
    ELSE [error |-> "none", locale |-> requestLocale]

\* Lines 19-22: import(`./messages/${locale}.json`)
LoadMessages(res) ==
    IF res.error # "none" THEN "none"
    ELSE IF res.locale.val \in MessageCatalogs THEN "loaded"
    ELSE "MODULE_NOT_FOUND"

NotCalled ==
    [called |-> FALSE, requestLocale |-> undefined, error |-> "none",
     locale |-> undefined, messages |-> "none"]

\* What one call of the callback given to getRequestConfig comes to.
RequestConfig(requestLocale) ==
    [called |-> TRUE,
     requestLocale |-> requestLocale,
     error |-> ResolveLocale(requestLocale).error,
     locale |-> ResolveLocale(requestLocale).locale,
     messages |-> LoadMessages(ResolveLocale(requestLocale))]

\* One call of the callback given to getRequestConfig.
GetRequestConfig(requestLocale) ==
    /\ cfg' = RequestConfig(requestLocale)
    /\ UNCHANGED <<NEXT_PUBLIC_BRAND, brandsObj, page, css, switcher, served, router, clientVars, mutateVars>>

-----------------------------------------------------------------------------
(* src/app/[locale]/page.tsx                                               *)

NotRendered == [rendered |-> FALSE, brand |-> undefined]

\* HomePage: const brand = getCurrentBrand()
HomePage ==
    /\ page' = [rendered |-> TRUE, brand |-> getCurrentBrand]
    /\ UNCHANGED <<NEXT_PUBLIC_BRAND, brandsObj, cfg, css, switcher, served, router, clientVars, mutateVars>>

-----------------------------------------------------------------------------
(* LocaleSwitcher and localeConfig of src/i18n/config.ts                   *)

\* Display names and flags, written in ASCII.
LocaleName(loc) ==
    CASE loc = "en" -> "English"  [] loc = "es" -> "Espanol" [] loc = "fr" -> "Francais"
      [] loc = "de" -> "Deutsch"  [] loc = "it" -> "Italiano"
      [] loc = "ja" -> "Nihongo"  [] loc = "zh" -> "Zhongwen"

LocaleFlag(loc) ==
    CASE loc = "en" -> "US" [] loc = "es" -> "ES" [] loc = "fr" -> "FR"
      [] loc = "de" -> "DE" [] loc = "it" -> "IT" [] loc = "ja" -> "JP" [] loc = "zh" -> "CN"

localeConfig ==
    [k \in BrandIds |->
        CASE k = "brand-a" -> [l \in {"en", "es", "fr"} |-> [name |-> LocaleName(l), flag |-> LocaleFlag(l)]]
          [] k = "brand-b" -> [l \in {"en", "de", "it"} |-> [name |-> LocaleName(l), flag |-> LocaleFlag(l)]]
          [] k = "brand-c" -> [l \in {"en", "ja", "zh"} |-> [name |-> LocaleName(l), flag |-> LocaleFlag(l)]]]

\* localeConfig[brand.id]?.[loc]
LocaleDisplay(brandId, loc) ==
    IF brandId \in DOMAIN localeConfig /\ loc \in DOMAIN localeConfig[brandId]
    THEN localeConfig[brandId][loc]
    ELSE undefined

NoSwitcher == [rendered |-> FALSE, error |-> "none", options |-> <<>>]

\* LocaleSwitcher that reverses brand.supportedLocales in place before mapping.
LocaleSwitcher_ReversesInPlace ==
    /\ IsBrandConfig(getCurrentBrand)
    /\ brandsObj' =
          [brandsObj EXCEPT ![getCurrentBrand.id].supportedLocales =
              [i \in 1..Len(@) |-> @[Len(@) + 1 - i]]]
    /\ switcher' =
          [rendered |-> TRUE, error |-> "none",
           options |-> [i \in 1..Len(getCurrentBrand.supportedLocales) |->
               [value |-> brandsObj'[getCurrentBrand.id].supportedLocales[i],
                config |-> LocaleDisplay(getCurrentBrand.id,
                               brandsObj'[getCurrentBrand.id].supportedLocales[i])]]]
    /\ UNCHANGED <<NEXT_PUBLIC_BRAND, cfg, page, css, served, router, clientVars, mutateVars>>

\* One render of LocaleSwitcher: an option for each of brand.supportedLocales;
\* supportedLocales.map throws when the brand has no such list.
LocaleSwitcher ==
    /\ switcher' =
          IF IsBrandConfig(getCurrentBrand)
          THEN [rendered |-> TRUE, error |-> "none",
                options |-> [i \in 1..Len(getCurrentBrand.supportedLocales) |->
                    [value |-> getCurrentBrand.supportedLocales[i],
                     config |-> LocaleDisplay(getCurrentBrand.id,
                                              getCurrentBrand.supportedLocales[i])]]]
          ELSE [rendered |-> TRUE, error |-> "TypeError", options |-> <<>>]
    /\ UNCHANGED <<NEXT_PUBLIC_BRAND, brandsObj, cfg, page, css, served, router, clientVars, mutateVars>>

-----------------------------------------------------------------------------
(* Navigation: RootPage of src/app/page.tsx and switchLocale of            *)
(* LocaleSwitcher                                                          *)

\* The position of the first occurrence of pat in s, 0 when there is none.
IndexOf(s, pat) ==
    LET hits == {i \in 1..(Len(s) - Len(pat) + 1) : SubSeq(s, i, i + Len(pat) - 1) = pat}
    IN  IF hits = {} THEN 0 ELSE CHOOSE i \in hits : \A k \in hits : i <= k

\* s.replace(pat, by) with a string pattern: the first occurrence only.
ReplaceFirst(s, pat, by) ==
    IF IndexOf(s, pat) = 0 THEN s
    ELSE SubSeq(s, 1, IndexOf(s, pat) - 1) \o by \o
         SubSeq(s, IndexOf(s, pat) + Len(pat), Len(s))

\* The [locale] segment of a pathname '/<locale>/...'.
LocaleSegment(path) ==
    LET rest == SubSeq(path, 2, Len(path))
    IN  IF IndexOf(rest, "/") = 0 THEN rest ELSE SubSeq(rest, 1, IndexOf(rest, "/") - 1)

\* pathname: usePathname() of the page shown, '' when none is; from and
\* newLocale: the pathname switchLocale was called on and its argument.
NoPage == [pathname |-> "", from |-> "", newLocale |-> ""]

\* The browser requests a page under [locale]: the request-config callback
\* runs for the locale segment of the path.
Navigate(path) ==
    /\ router' = [pathname |-> path, from |-> "", newLocale |-> ""]
    /\ cfg' = RequestConfig(JSString(LocaleSegment(path)))
    /\ UNCHANGED <<NEXT_PUBLIC_BRAND, brandsObj, page, css, switcher, served, clientVars, mutateVars>>

\* RootPage: redirect(`/${defaultLocale}`), and the request of the target.
RootPage ==
    /\ router' = [pathname |-> "/" \o defaultLocale, from |-> "/", newLocale |-> ""]
    /\ cfg' = RequestConfig(JSString(LocaleSegment("/" \o defaultLocale)))
    /\ UNCHANGED <<NEXT_PUBLIC_BRAND, brandsObj, page, css, switcher, served, clientVars, mutateVars>>

\* useLocale() on the page shown: the locale the request config settled on.
useLocale == RequestConfig(JSString(LocaleSegment(router.pathname)))

\* Line 162: pathname.replace(`/${locale}`, '') || '/'
PathWithoutLocale(pathname, locale) ==
    IF ReplaceFirst(pathname, "/" \o locale, "") = "" THEN "/"
    ELSE ReplaceFirst(pathname, "/" \o locale, "")

\* switchLocale(newLocale), lines 160-165, chosen among the options of a
\* rendered LocaleSwitcher: router.push of the new path, and the request of
\* that page.
switchLocale(newLocale) ==
    /\ router.pathname # ""
    /\ useLocale.error = "none" /\ useLocale.messages = "loaded"
    /\ IsBrandConfig(getCurrentBrand)
    /\ Includes(getCurrentBrand.supportedLocales, JSString(newLocale))
    /\ router' = [pathname |-> "/" \o newLocale \o
                      PathWithoutLocale(router.pathname, useLocale.locale.val),
                  from |-> router.pathname, newLocale |-> newLocale]
    /\ cfg' = RequestConfig(JSString(LocaleSegment(router'.pathname)))
    /\ UNCHANGED <<NEXT_PUBLIC_BRAND, brandsObj, page, css, switcher, served, clientVars, mutateVars>>

-----------------------------------------------------------------------------
(* Mutation handlers: the route handlers POST /api/users and               *)
(* DELETE /api/users/[id], and the server actions createUser and           *)
(* deleteUser                                                              *)

\* Number of request contexts that may run a mutation handler at once.
NumProcs == 2

Procs == 1..NumProcs

Whitespace == {" "}

RECURSIVE TrimStart(_)
TrimStart(s) ==
    IF s = "" THEN s
    ELSE IF Head(s) \in Whitespace THEN TrimStart(Tail(s))
    ELSE s

RECURSIVE TrimEnd(_)
TrimEnd(s) ==
    IF s = "" THEN s
    ELSE IF SubSeq(s, Len(s), Len(s)) \in Whitespace
         THEN TrimEnd(SubSeq(s, 1, Len(s) - 1))
    ELSE s

\* String.prototype.trim
Trim(s) == TrimEnd(TrimStart(s))

\* String.prototype.includes for a one-character needle.
StrIncludes(s, ch) == \E i \in 1..Len(s) : SubSeq(s, i, i) = ch

\* The revalidatePath calls of each handler, in program order.
\* POST that forgets the home page.
PathsOfPOST_OnlyList == <<"/users">>

PathsOfPOST == <<"/users", "/">>

PathsOfDELETE(id) == <<"/users", "/users/" \o id, "/">>

PathsOfCreateUser == <<"/users", "/">>

\* deleteUser that revalidates like createUser, without the user's own page.
PathsOfDeleteUser_NoDetail(userId) == <<"/users", "/">>

PathsOfDeleteUser(userId) == <<"/users", "/", "/users/" \o userId>>

PathsOf(i) ==
    CASE i.handler = "POST"       -> PathsOfPOST
      [] i.handler = "DELETE"     -> PathsOfDELETE(i.id.val)
      [] i.handler = "createUser" -> PathsOfCreateUser
      [] i.handler = "deleteUser" -> PathsOfDeleteUser(i.id.val)
      [] OTHER                    -> <<>>

IsRoute(i) == i.handler \in {"POST", "DELETE"}

\* The longest list of revalidatePath calls of a handler.
MaxPaths == Len(PathsOfDELETE(""))

NoResult == [kind |-> "none", status |-> 0, success |-> FALSE, text |-> "", data |-> <<>>]

\* NextResponse.json(body, {status})
JsonResponse(status, success, text, data) ==
    [kind |-> "response", status |-> status, success |-> success,
     text |-> text, data |-> data]

\* The object a server action returns.
ActionState(success, text, data) ==
    [kind |-> "value", status |-> 0, success |-> success, text |-> text, data |-> data]

\* A server action whose promise rejects with the error revalidatePath threw.
Rejected == [kind |-> "exception", status |-> 0, success |-> FALSE,
             text |-> "revalidatePath", data |-> <<>>]

\* json: the request body could be parsed (false only for a POST whose body
\* is no JSON); mutated: the simulated mutation has been performed.
Idle ==
    [handler |-> "none", pc |-> "idle", json |-> TRUE, name |-> undefined,
     email |-> undefined, id |-> undefined, mutated |-> FALSE, calls |-> <<>>, failedAt |-> 0,
     result |-> NoResult]

Started(handler, name, email, id) ==
    [handler |-> handler, pc |-> "delay", json |-> TRUE, name |-> name, email |-> email,
     id |-> id, mutated |-> TRUE, calls |-> <<>>, failedAt |-> 0,
     result |-> NoResult]

Ended(handler, name, email, id, result) ==
    [handler |-> handler, pc |-> "done", json |-> TRUE, name |-> name, email |-> email,
     id |-> id, mutated |-> FALSE, calls |-> <<>>, failedAt |-> 0,
     result |-> result]

\* POST /api/users, lines 44-64 and the catch of lines 83-90 for a body that
\* is no JSON: parse, validate, log the simulated insert, start the delay.
POST(p, body) ==
    /\ inv[p].pc = "idle"
    /\ inv' = [inv EXCEPT ![p] =
          IF body.json = FALSE
          THEN [Ended("POST", undefined, undefined, undefined,
                      JsonResponse(500, FALSE, "Failed to create user", <<>>))
                   EXCEPT !.json = FALSE]
          ELSE IF ~Truthy(body.name) \/ ~Truthy(body.email)
          THEN Ended("POST", body.name, body.email, undefined,
                     JsonResponse(400, FALSE, "Name and email are required", <<>>))
          ELSE Started("POST", body.name, body.email, undefined)]
    /\ UNCHANGED <<resolveVars, clientVars, served, router, stale>>

\* DELETE that revalidates before it awaits the simulated deletion.
DELETE_RevalidatesBeforeDelay(p, id) ==
    /\ inv[p].pc = "idle"
    /\ inv' = [inv EXCEPT ![p] =
          [Started("DELETE", undefined, undefined, JSString(id))
              EXCEPT !.calls = <<"/users", "/users/" \o id, "/">>]]
    /\ stale' = stale \cup {"/users", "/users/" \o id, "/"}
    /\ UNCHANGED <<resolveVars, clientVars, served, router>>

\* DELETE /api/users/[id], lines 79-88: read the id, log the simulated
\* deletion, start the delay.
DELETE(p, id) ==
    /\ inv[p].pc = "idle"
    /\ inv' = [inv EXCEPT ![p] = Started("DELETE", undefined, undefined, JSString(id))]
    /\ UNCHANGED <<resolveVars, clientVars, served, router, stale>>

\* createUser without the test of the email.
createUser_NoEmailCheck(p, name, email) ==
    /\ inv[p].pc = "idle"
    /\ inv' = [inv EXCEPT ![p] =
          IF ~Truthy(name) \/ Len(Trim(name.val)) = 0
          THEN Ended("createUser", name, email, undefined,
                     ActionState(FALSE, "Name is required", <<>>))
          ELSE Started("createUser", name,
                       IF Truthy(email) THEN email ELSE JSString(""), undefined)]
    /\ UNCHANGED <<resolveVars, clientVars, served, router, stale>>

\* createUser, lines 158-184: validate, log the simulated insert, start the
\* delay.
createUser(p, name, email) ==
    /\ inv[p].pc = "idle"
    /\ inv' = [inv EXCEPT ![p] =
          IF ~Truthy(name) \/ Len(Trim(name.val)) = 0
          THEN Ended("createUser", name, email, undefined,
                     ActionState(FALSE, "Name is required", <<>>))
          ELSE IF ~Truthy(email) \/ ~StrIncludes(email.val, "@")
          THEN Ended("createUser", name, email, undefined,
                     ActionState(FALSE, "Valid email is required", <<>>))
          ELSE Started("createUser", name, email, undefined)]
    /\ UNCHANGED <<resolveVars, clientVars, served, router, stale>>

\* deleteUser, lines 220-233: validate, log the simulated deletion, start the
\* delay.
deleteUser(p, userId) ==
    /\ inv[p].pc = "idle"
    /\ inv' = [inv EXCEPT ![p] =
          IF ~Truthy(JSString(userId))
          THEN Ended("deleteUser", undefined, undefined, JSString(userId),
                     ActionState(FALSE, "User ID is required", <<>>))
          ELSE Started("deleteUser", undefined, undefined, JSString(userId))]
    /\ UNCHANGED <<resolveVars, clientVars, served, router, stale>>

\* The paths of the first n calls.
Prefix(paths, n) == SubSeq(paths, 1, n)

Range(seq) == {seq[i] : i \in 1..Len(seq)}

\* The handler's result after its last revalidatePath call has returned.
SuccessResult(i, now) ==
    CASE i.handler = "POST" ->
           JsonResponse(201, TRUE, "User created successfully",
                        <<now, i.name.val, i.email.val>>)
      [] i.handler = "DELETE" ->
           JsonResponse(200, TRUE, "User " \o i.id.val \o " deleted successfully", <<>>)
      [] i.handler = "createUser" ->
           ActionState(TRUE, "User " \o i.name.val \o " created successfully!",
                       <<i.name.val, i.email.val>>)
      [] OTHER ->
           ActionState(TRUE, "User " \o i.id.val \o " deleted successfully!", <<>>)

\* A handler that swallows the error of revalidatePath and reports success.
FailureResult_Swallowed(i) == SuccessResult(i, "1700000000000")

\* The handler's outcome when a revalidatePath call has thrown: the catch
\* block of a route handler answers 500; a server action has no catch and
\* its promise rejects.
FailureResult(i) ==
    CASE i.handler = "POST" ->
           JsonResponse(500, FALSE, "Failed to create user", <<>>)
      [] i.handler = "DELETE" ->
           JsonResponse(500, FALSE, "Failed to delete user", <<>>)
      [] OTHER -> Rejected

\* Values of Date.now().toString() at the time of a POST response.
Timestamps == {"1700000000000", "1700000000001"}

\* Resume that returns the success result after its first revalidatePath call.
Resume_ReturnsAfterFirstPath(p) ==
    /\ inv[p].pc = "delay"
    /\ stale' = stale \cup Range(Prefix(PathsOf(inv[p]), 1))
    /\ \E now \in Timestamps :
          inv' = [inv EXCEPT
             ![p].pc = "done",
             ![p].calls = Prefix(PathsOf(inv[p]), 1),
             ![p].result = SuccessResult(inv[p], now)]
    /\ UNCHANGED <<resolveVars, clientVars, served, router>>

\* Resume that also revalidates the page of the id POST generates from the
\* clock.
Resume_RevalidatesGeneratedId(p) ==
    /\ inv[p].pc = "delay"
    /\ \E now \in Timestamps :
          /\ stale' = stale \cup Range(PathsOf(inv[p])) \cup
                         (IF inv[p].handler = "POST" THEN {"/users/" \o now} ELSE {})
          /\ inv' = [inv EXCEPT
                ![p].pc = "done",
                ![p].calls = IF inv[p].handler = "POST"
                             THEN Append(PathsOf(inv[p]), "/users/" \o now)
                             ELSE PathsOf(inv[p]),
                ![p].result = SuccessResult(inv[p], now)]
    /\ UNCHANGED <<resolveVars, clientVars, served, router>>

\* Resume that leaves out the paths another handler has already marked stale.
Resume_SkipsStale(p) ==
    /\ inv[p].pc = "delay"
    /\ stale' = stale \cup Range(PathsOf(inv[p]))
    /\ \E now \in Timestamps :
          inv' = [inv EXCEPT
             ![p].pc = "done",
             ![p].calls = SelectSeq(PathsOf(inv[p]), LAMBDA path : path \notin stale),
             ![p].result = SuccessResult(inv[p], now)]
    /\ UNCHANGED <<resolveVars, clientVars, served, router>>

\* The promise of setTimeout resolves and the handler runs on without a
\* further await: every revalidatePath call returns, in program order, and
\* the handler returns its result.
Resume(p) ==
    /\ inv[p].pc = "delay"
    /\ stale' = stale \cup Range(PathsOf(inv[p]))
    /\ \E now \in Timestamps :
          inv' = [inv EXCEPT
             ![p].pc = "done",
             ![p].calls = PathsOf(inv[p]),
             ![p].result = SuccessResult(inv[p], now)]
    /\ UNCHANGED <<resolveVars, clientVars, served, router>>

\* ResumeThrows with each call in its own try/catch: the calls after the
\* failing one are still made.
ResumeThrows_Continues(p, k) ==
    /\ inv[p].pc = "delay"
    /\ k \in 1..Len(PathsOf(inv[p]))
    /\ stale' = stale \cup (Range(PathsOf(inv[p])) \ {PathsOf(inv[p])[k]})
    /\ inv' = [inv EXCEPT
          ![p].pc = "done",
          ![p].calls = PathsOf(inv[p]),
          ![p].failedAt = k,
          ![p].result = FailureResult(inv[p])]
    /\ UNCHANGED <<resolveVars, clientVars, served, router>>

\* ResumeThrows that tries the failing call a second time.
ResumeThrows_Retries(p, k) ==
    /\ inv[p].pc = "delay"
    /\ k \in 1..Len(PathsOf(inv[p]))
    /\ stale' = stale \cup Range(Prefix(PathsOf(inv[p]), k - 1))
    /\ inv' = [inv EXCEPT
          ![p].pc = "done",
          ![p].calls = Append(Prefix(PathsOf(inv[p]), k), PathsOf(inv[p])[k]),
          ![p].failedAt = k,
          ![p].result = FailureResult(inv[p])]
    /\ UNCHANGED <<resolveVars, clientVars, served, router>>

\* As Resume, but the k-th revalidatePath call throws: the calls before it
\* have marked their paths, the calls after it are never reached.
ResumeThrows(p, k) ==
    /\ inv[p].pc = "delay"
    /\ k \in 1..Len(PathsOf(inv[p]))
    /\ stale' = stale \cup Range(Prefix(PathsOf(inv[p]), k - 1))
    /\ inv' = [inv EXCEPT
          ![p].pc = "done",
          ![p].calls = Prefix(PathsOf(inv[p]), k),
          ![p].failedAt = k,
          ![p].result = FailureResult(inv[p])]
    /\ UNCHANGED <<resolveVars, clientVars, served, router>>

\* The response has been delivered; the request context takes a new request.
Release(p) ==
    /\ inv[p].pc = "done"
    /\ inv' = [inv EXCEPT ![p] = Idle]
    /\ UNCHANGED <<resolveVars, clientVars, served, router, stale>>

-----------------------------------------------------------------------------
(* Read-only handlers: GET /api/users, GET /api/users/[id], GET and POST   *)
(* /api/external, and the server action incrementCounter                   *)

JSNumber(n) == [type |-> "number", val |-> n]

JSArray(items) == [type |-> "array", items |-> items]

\* obj.f of a JSON value: undefined when the object has no such property.
Pick(obj, f) == IF f \in DOMAIN obj THEN obj[f] ELSE undefined

\* request: the input of a call of /api/external; fetched: the request the
\* handler has sent to the third party, if any; upstream: what that request
\* came to.
NotServed ==
    [handler |-> "none", kind |-> "none", status |-> 0, success |-> FALSE,
     text |-> "", details |-> "", data |-> undefined, request |-> undefined,
     fetched |-> undefined, upstream |-> undefined]

\* NextResponse.json of a read-only route handler.
Served(handler, status, success, text, details, data, fetched) ==
    [handler |-> handler, kind |-> "response", status |-> status,
     success |-> success, text |-> text, details |-> details, data |-> data,
     request |-> undefined, fetched |-> fetched, upstream |-> undefined]

\* GET /api/users, lines 20-41: the two users of the simulated fetch.
GET_users ==
    /\ served' = Served("GET /api/users", 200, TRUE, "", "",
          JSArray(<<[type |-> "object", id |-> JSString("1"),
                     name |-> JSString("John Doe"), email |-> JSString("john@example.com")],
                    [type |-> "object", id |-> JSString("2"),
                     name |-> JSString("Jane Smith"), email |-> JSString("jane@example.com")]>>),
          undefined)
    /\ UNCHANGED <<resolveVars, router, clientVars, mutateVars>>

\* GET_users_id that revalidates the detail page it has read.
GET_users_id_Revalidates(id, now) ==
    /\ served' = Served("GET /api/users/[id]", 200, TRUE, "", "",
          [type |-> "object", id |-> JSString(id), name |-> JSString("John Doe"),
           email |-> JSString("john@example.com"), createdAt |-> JSString(now)],
          undefined)
    /\ stale' = stale \cup {"/users/" \o id}
    /\ UNCHANGED <<resolveVars, clientVars, router, inv>>

\* GET /api/users/[id], lines 48-76: the simulated user under the id of the
\* route, created at the time of the call.
GET_users_id(id, now) ==
    /\ served' = Served("GET /api/users/[id]", 200, TRUE, "", "",
          [type |-> "object", id |-> JSString(id), name |-> JSString("John Doe"),
           email |-> JSString("john@example.com"), createdAt |-> JSString(now)],
          undefined)
    /\ UNCHANGED <<resolveVars, router, clientVars, mutateVars>>

THIRD_PARTY_API_URL == "https://jsonplaceholder.typicode.com"

\* Lines 28-30: the URL GET /api/external fetches.
ApiUrl(postId) ==
    IF Truthy(postId)
    THEN THIRD_PARTY_API_URL \o "/posts/" \o postId.val
    ELSE THIRD_PARTY_API_URL \o "/posts?_limit=5"

\* `${response.status}`
StatusText(status) ==
    CASE status = 404 -> "404" [] status = 500 -> "500" [] OTHER -> "200"

\* Transform that hands the upstream data on as it is.
Transform_PassesThrough(data) ==
    IF data = null THEN [error |-> TRUE, value |-> undefined]
    ELSE [error |-> FALSE, value |-> data]

\* Lines 51-63: the four fields kept of a post, or of each post of an array;
\* reading a property of null throws.
Transform(data) ==
    IF data = null THEN [error |-> TRUE, value |-> undefined]
    ELSE IF data.type = "array"
    THEN [error |-> FALSE,
          value |-> JSArray([i \in 1..Len(data.items) |->
              [type |-> "object", id |-> Pick(data.items[i], "id"),
               title |-> Pick(data.items[i], "title"),
               body |-> Pick(data.items[i], "body"),
               userId |-> Pick(data.items[i], "userId")]])]
    ELSE [error |-> FALSE,
          value |-> [type |-> "object", id |-> Pick(data, "id"),
                     title |-> Pick(data, "title"), body |-> Pick(data, "body"),
                     userId |-> Pick(data, "userId")]]

\* FetchError without the test of response.ok.
FetchError_IgnoresStatus(out) ==
    CASE out.kind = "rejects"  -> "fetch failed"
      [] out.kind = "badJson"  -> "Unexpected end of JSON input"
      [] OTHER                 -> ""

\* The message of the error caught when the call of the third party fails:
\* fetch rejects, the status is not ok, or the body is no JSON.
FetchError(out) ==
    CASE out.kind = "rejects"  -> "fetch failed"
      [] ~out.ok               -> "Third-party API error: " \o StatusText(out.status)
      [] out.kind = "badJson"  -> "Unexpected end of JSON input"
      [] OTHER                 -> ""

\* The response of GET /api/external for the query parameter postId when the
\* call of the third party comes to out.
ResponseOfGET(postId, out) ==
          IF FetchError(out) # ""
          THEN Served("GET /api/external", 500, FALSE,
                      "Failed to fetch data from third-party API", FetchError(out),
                      undefined, JSString(ApiUrl(postId)))
          ELSE IF Transform(out.data).error
          THEN Served("GET /api/external", 500, FALSE,
                      "Failed to fetch data from third-party API",
                      "Cannot read properties of null (reading 'id')",
                      undefined, JSString(ApiUrl(postId)))
          ELSE Served("GET /api/external", 200, TRUE, "third-party-api", "",
                      Transform(out.data).value, JSString(ApiUrl(postId)))

\* GET /api/external, lines 22-81.
GET_external(postId, out) ==
    /\ served' = [ResponseOfGET(postId, out) EXCEPT !.request = postId, !.upstream = out]
    /\ UNCHANGED <<resolveVars, router, clientVars, mutateVars>>

\* Lines 107-111: the post sent on, userId defaulting to 1.
PostSent(body) ==
    [type |-> "object", title |-> body.title, body |-> body.body,
     userId |-> IF Truthy(body.userId) THEN body.userId ELSE JSNumber(1)]

\* The response of POST /api/external for the request body when the call of
\* the third party, if made, comes to out.
ResponseOfPOST(body, out) ==
          IF ~body.json
          THEN Served("POST /api/external", 500, FALSE,
                      "Failed to create data via third-party API",
                      "Unexpected end of JSON input", undefined, undefined)
          ELSE IF ~Truthy(body.title) \/ ~Truthy(body.body)
          THEN Served("POST /api/external", 400, FALSE,
                      "Title and body are required", "", undefined, undefined)
          ELSE IF FetchError(out) # ""
          THEN Served("POST /api/external", 500, FALSE,
                      "Failed to create data via third-party API", FetchError(out),
                      undefined, PostSent(body))
          ELSE Served("POST /api/external", 201, TRUE,
                      "Data created via third-party API", "", out.data, PostSent(body))

\* POST /api/external, lines 84-139: the body is parsed and validated, the
\* post is sent on, and the third party's answer is returned with status 201.
POST_external(body, out) ==
    /\ served' = [ResponseOfPOST(body, out) EXCEPT
                     !.request = body,
                     !.upstream = IF ResponseOfPOST(body, out).fetched = undefined
                                  THEN undefined ELSE out]
    /\ UNCHANGED <<resolveVars, router, clientVars, mutateVars>>

\* incrementCounter, lines 201-217: a value that is no number is refused with
\* an exception, a number is answered with its successor.
incrementCounter(currentValue) ==
    /\ served' =
          IF currentValue.type # "number"
          THEN [handler |-> "incrementCounter", kind |-> "exception", status |-> 0,
                success |-> FALSE, text |-> "Invalid counter value", details |-> "",
                data |-> undefined, request |-> undefined, fetched |-> undefined,
                upstream |-> undefined]
          ELSE [handler |-> "incrementCounter", kind |-> "value", status |-> 0,
                success |-> TRUE, text |-> "Counter incremented!", details |-> "",
                data |-> JSNumber(currentValue.val + 1), request |-> undefined,
                fetched |-> undefined, upstream |-> undefined]
    /\ UNCHANGED <<resolveVars, router, clientVars, mutateVars>>

-----------------------------------------------------------------------------
(* Client components ApiExample and ThirdPartyApiExample                   *)

Components == {"ApiExample", "ThirdPartyApiExample"}

\* Largest number of requests of one component in flight at a time.
MaxInFlight == 3

\* loading, message: the state hooks; items: the length of users or posts;
\* list, create, refresh: the requests in flight, started by a fetch control
\* or the mount effect, by a submit, and by the refresh after a create.
NoComponent ==
    [component |-> "none", loading |-> FALSE, message |-> null, items |-> 0,
     list |-> 0, create |-> 0, refresh |-> 0]

InFlight(u) == u.list + u.create + u.refresh

\* fetchUsers / fetchPosts up to the first await: setLoading(true),
\* setMessage(null), and the request is sent.
StartFetch(u, kind) ==
    [u EXCEPT !.loading = TRUE, !.message = null, ![kind] = @ + 1]

\* The component is mounted; ThirdPartyApiExample fetches the posts in its
\* mount effect (lines 60-62).
Mount(c) ==
    /\ ui.component = "none"
    /\ ui' = IF c = "ThirdPartyApiExample"
             THEN StartFetch([NoComponent EXCEPT !.component = c], "list")
             ELSE [NoComponent EXCEPT !.component = c]
    /\ UNCHANGED <<resolveVars, served, router, mutateVars>>

\* A click on 'Fetch Users', which is disabled while loading.
fetchUsers ==
    /\ ui.component = "ApiExample"
    /\ ~ui.loading
    /\ InFlight(ui) < MaxInFlight
    /\ ui' = StartFetch(ui, "list")
    /\ UNCHANGED <<resolveVars, served, router, mutateVars>>

\* A click on 'Fetch All Posts' or 'Fetch Post', which are disabled while
\* loading.
fetchPosts ==
    /\ ui.component = "ThirdPartyApiExample"
    /\ ~ui.loading
    /\ InFlight(ui) < MaxInFlight
    /\ ui' = StartFetch(ui, "list")
    /\ UNCHANGED <<resolveVars, served, router, mutateVars>>

RequiredText(c) ==
    IF c = "ApiExample" THEN "Name and email are required"
    ELSE "Title and body are required"

\* handleSubmit up to its first await, on a form whose submit button is
\* disabled while loading: the fields are validated and the create request is
\* sent.
handleSubmit(first, second) ==
    /\ ui.component \in Components
    /\ ~ui.loading
    /\ InFlight(ui) < MaxInFlight
    /\ ui' = IF ~Truthy(first) \/ ~Truthy(second)
             THEN [ui EXCEPT !.loading = FALSE,
                             !.message = JSString(RequiredText(ui.component))]
             ELSE [ui EXCEPT !.loading = TRUE, !.message = null, !.create = @ + 1]
    /\ UNCHANGED <<resolveVars, served, router, mutateVars>>

\* `${postsData.length}`
CountText(n) == CASE n = 1 -> "1" [] n = 2 -> "2" [] OTHER -> "0"

\* The message after the response of a list request.
ListMessage(c, res) ==
    IF c = "ApiExample"
    THEN CASE res.kind = "rejects" -> "Error fetching users"
           [] res.success          -> "Users fetched successfully!"
           [] OTHER                -> "Failed to fetch users"
    ELSE CASE res.kind = "rejects" -> "Error fetching posts"
           [] res.success          ->
                "Fetched " \o CountText(res.items) \o " post(s) from third-party API!"
           [] res.error # ""       -> res.error
           [] OTHER                -> "Failed to fetch posts"

\* The rest of fetchUsers / fetchPosts once its request is answered: the list
\* and the message are set, and the finally block ends loading.
ListResponds(kind, res) ==
    /\ kind \in {"list", "refresh"}
    /\ ui[kind] > 0
    /\ ui' = [ui EXCEPT ![kind] = @ - 1,
                        !.items = IF res.kind = "response" /\ res.success
                                  THEN res.items ELSE @,
                        !.message = JSString(ListMessage(ui.component, res)),
                        !.loading = FALSE]
    /\ UNCHANGED <<resolveVars, served, router, mutateVars>>

CreatedText(c, res) ==
    IF c = "ApiExample" THEN "User created: " \o res.label
    ELSE "Post created via third-party API! ID: " \o res.label

CreateErrorText(c) ==
    IF c = "ApiExample" THEN "Error creating user" ELSE "Error creating post"

CreateFailedText(c, res) ==
    IF res.error # "" THEN res.error
    ELSE IF c = "ApiExample" THEN "Failed to create user" ELSE "Failed to create post"

\* The rest of handleSubmit once the create request is answered.  After a
\* success the message is set and e.currentTarget.reset() is called: where
\* the event's currentTarget has been cleared since the handler's first
\* await the call throws and the catch block sets the error message; where
\* it is still the form, fetchUsers() / fetchPosts() is called without await
\* (it sets loading and sends the refresh), and then the finally block of
\* handleSubmit ends loading.
CreateResponds(res, resetThrows) ==
    /\ ui.create > 0
    /\ ui' =
          IF res.kind = "rejects"
          THEN [ui EXCEPT !.create = @ - 1, !.loading = FALSE,
                          !.message = JSString(CreateErrorText(ui.component))]
          ELSE IF ~res.success
          THEN [ui EXCEPT !.create = @ - 1, !.loading = FALSE,
                          !.message = JSString(CreateFailedText(ui.component, res))]
          ELSE IF resetThrows
          THEN [ui EXCEPT !.create = @ - 1, !.loading = FALSE,
                          !.message = JSString(CreateErrorText(ui.component))]
          ELSE [StartFetch([ui EXCEPT !.create = @ - 1], "refresh")
                    EXCEPT !.loading = FALSE]
    /\ UNCHANGED <<resolveVars, served, router, mutateVars>>

-----------------------------------------------------------------------------
(* Inputs                                                                  *)

\* Values of NEXT_PUBLIC_BRAND at build time.
BrandEnvValues ==
    {undefined} \cup
    {JSString(s) : s \in BrandIds \cup {"", "nonexistent-brand"} \cup ObjectPrototypeKeys}

\* Values of requestLocale supplied by the routing layer.
RequestLocales ==
    {undefined} \cup
    {JSString(s) : s \in {"", "en", "es", "fr", "de", "it", "ja", "zh", "xx-not-supported"}}

UserIds == {"42", "7"}

\* (name, email) pairs: a missing, an empty and a blank name, a missing email,
\* an email without '@', and a well-formed pair.
NameEmailPairs(missing) ==
    {<<missing, JSString("al@example.com")>>,
     <<JSString(""), JSString("al@example.com")>>,
     <<JSString(" "), JSString("al@example.com")>>,
     <<JSString("Al"), missing>>,
     <<JSString("Al"), JSString("al.example")>>,
     <<JSString("Al"), JSString("al@example.com")>>}

\* Request bodies of POST /api/users: no JSON at all, or an object whose name
\* and email are strings or missing.
Bodies ==
    {[json |-> FALSE, name |-> undefined, email |-> undefined]} \cup
    {[json |-> TRUE, name |-> ne[1], email |-> ne[2]] : ne \in NameEmailPairs(undefined)}

\* formData.get('name') and formData.get('email') of the createUser form:
\* null when the field is missing.
FormData == NameEmailPairs(null)

\* new Date().toISOString() at the time of a GET /api/users/[id].
IsoTimes == {"2024-01-01T00:00:00.000Z", "2024-01-01T00:00:01.000Z"}

\* The postId query parameter of GET /api/external: missing, empty or given.
PostIds == {null, JSString(""), JSString("1")}

\* A post as the third party returns it.
UpstreamPost ==
    [type |-> "object", id |-> JSNumber(1), title |-> JSString("sunt aut"),
     body |-> JSString("quia et"), userId |-> JSNumber(1), views |-> JSNumber(9)]

\* The same post with other values in the fields the proxy does not name.
UpstreamPostWithSecret ==
    [type |-> "object", id |-> JSNumber(1), title |-> JSString("sunt aut"),
     body |-> JSString("quia et"), userId |-> JSNumber(1), views |-> JSNumber(10),
     apiKey |-> JSString("k-123")]

\* What the call of the third party comes to: fetch rejects, a status that
\* is not ok, a body that is no JSON, or a JSON body.
FetchOutcomes ==
    {[kind |-> "rejects", ok |-> FALSE, status |-> 0, data |-> undefined],
     [kind |-> "response", ok |-> FALSE, status |-> 404, data |-> undefined],
     [kind |-> "response", ok |-> FALSE, status |-> 500, data |-> undefined],
     [kind |-> "badJson", ok |-> TRUE, status |-> 200, data |-> undefined],
     [kind |-> "response", ok |-> TRUE, status |-> 200, data |-> null],
     [kind |-> "response", ok |-> TRUE, status |-> 200, data |-> UpstreamPost],
     [kind |-> "response", ok |-> TRUE, status |-> 200, data |-> UpstreamPostWithSecret],
     [kind |-> "response", ok |-> TRUE, status |-> 200,
      data |-> JSArray(<<UpstreamPost, [type |-> "object", id |-> JSNumber(2)]>>)],
     [kind |-> "response", ok |-> TRUE, status |-> 200,
      data |-> JSArray(<<UpstreamPostWithSecret,
                         [type |-> "object", id |-> JSNumber(2), views |-> JSNumber(3)]>>)]}

\* Request bodies of POST /api/external.
ExternalBodies ==
    {[json |-> FALSE, title |-> undefined, body |-> undefined, userId |-> undefined],
     [json |-> TRUE, title |-> JSString(""), body |-> JSString("b"), userId |-> undefined],
     [json |-> TRUE, title |-> JSString("t"), body |-> undefined, userId |-> undefined],
     [json |-> TRUE, title |-> JSString("t"), body |-> JSString("b"), userId |-> undefined],
     [json |-> TRUE, title |-> JSString("t"), body |-> JSString("b"), userId |-> JSNumber(7)]}

\* Arguments of incrementCounter.
CounterValues == {JSNumber(0), JSNumber(41), JSString("1"), undefined}

Init ==
    /\ NEXT_PUBLIC_BRAND \in BrandEnvValues
    /\ brandsObj = brands
    /\ cfg = NotCalled
    /\ page = NotRendered
    /\ css = NotGenerated
    /\ switcher = NoSwitcher
    /\ served = NotServed
    /\ router = NoPage
    /\ ui = NoComponent
    /\ inv = [p \in Procs |-> Idle]
    /\ stale = {}

NextResolve ==
    \/ \E l \in RequestLocales : GetRequestConfig(l)
    \/ HomePage
    \/ GetBrandThemeCSS
    \/ LocaleSwitcher

NextMutate ==
    \/ \E p \in Procs, body \in Bodies : POST(p, body)
    \/ \E p \in Procs, id \in UserIds : DELETE(p, id)
    \/ \E p \in Procs, fd \in FormData : createUser(p, fd[1], fd[2])
    \/ \E p \in Procs, userId \in UserIds \cup {""} : deleteUser(p, userId)
    \/ \E p \in Procs : Resume(p)
    \/ \E p \in Procs, k \in 1..MaxPaths : ResumeThrows(p, k)
    \/ \E p \in Procs : Release(p)

\* The brand and locale resolvers under every build-time brand identifier.
SpecResolve == Init /\ [][NextResolve]_vars

\* The mutation handlers of a build with NEXT_PUBLIC_BRAND unset.
InitMutate == Init /\ NEXT_PUBLIC_BRAND = undefined

SpecMutate == InitMutate /\ [][NextMutate]_vars

\* Handlers and page renders interleaved: a build for brand-b, requests
\* that pass validation, and renders for an absent, a supported and an
\* unsupported locale.
ConcurrentLocales == {undefined, JSString("de"), JSString("fr")}

ConcurrentBody ==
    [json |-> TRUE, name |-> JSString("Al"), email |-> JSString("al@example.com")]

InitConcurrent == Init /\ NEXT_PUBLIC_BRAND = JSString("brand-b")

NextConcurrent ==
    \/ \E l \in ConcurrentLocales : GetRequestConfig(l)
    \/ HomePage
    \/ \E p \in Procs : POST(p, ConcurrentBody)
    \/ \E p \in Procs : DELETE(p, "42")
    \/ \E p \in Procs : createUser(p, ConcurrentBody.name, ConcurrentBody.email)
    \/ \E p \in Procs : deleteUser(p, "7")
    \/ \E p \in Procs : Resume(p)
    \/ \E p \in Procs, k \in 1..MaxPaths : ResumeThrows(p, k)
    \/ \E p \in Procs : Release(p)

SpecConcurrent == InitConcurrent /\ [][NextConcurrent]_vars

\* The whole application serving one request at a time in one request
\* context: every build, every render (for an absent, a supported and an
\* unsupported locale) and every mutation request.
OneAtATime == {p \in Procs : \A q \in Procs : p <= q}

NextApp ==
    \/ \E l \in ConcurrentLocales : GetRequestConfig(l)
    \/ HomePage
    \/ GetBrandThemeCSS
    \/ LocaleSwitcher
    \/ \E p \in OneAtATime, body \in Bodies : POST(p, body)
    \/ \E p \in OneAtATime, id \in UserIds : DELETE(p, id)
    \/ \E p \in OneAtATime, fd \in FormData : createUser(p, fd[1], fd[2])
    \/ \E p \in OneAtATime, userId \in UserIds \cup {""} : deleteUser(p, userId)
    \/ \E p \in OneAtATime : Resume(p)
    \/ \E p \in OneAtATime, k \in 1..MaxPaths : ResumeThrows(p, k)
    \/ \E p \in OneAtATime : Release(p)

SpecApp == Init /\ [][NextApp]_vars

\* The read-only handlers beside the mutation handlers of one request
\* context.
NextRead ==
    \/ GET_users
    \/ \E id \in UserIds, now \in IsoTimes : GET_users_id(id, now)
    \/ \E postId \in PostIds, out \in FetchOutcomes : GET_external(postId, out)
    \/ \E body \in ExternalBodies, out \in FetchOutcomes : POST_external(body, out)
    \/ \E currentValue \in CounterValues : incrementCounter(currentValue)
    \/ \E p \in OneAtATime, body \in Bodies : POST(p, body)
    \/ \E p \in OneAtATime, id \in UserIds : DELETE(p, id)
    \/ \E p \in OneAtATime, fd \in FormData : createUser(p, fd[1], fd[2])
    \/ \E p \in OneAtATime, userId \in UserIds \cup {""} : deleteUser(p, userId)
    \/ \E p \in OneAtATime : Resume(p)
    \/ \E p \in OneAtATime, k \in 1..MaxPaths : ResumeThrows(p, k)
    \/ \E p \in OneAtATime : Release(p)

SpecRead == InitMutate /\ [][NextRead]_vars

\* Pathnames a visitor opens: the locale segment is one of allLocales, alone
\* or followed by further segments, some of which contain a locale code.
NavPaths ==
    {"/" \o allLocales[i] : i \in 1..Len(allLocales)} \cup
    {"/en/about", "/fr/about", "/de/about", "/en/english", "/es/en", "/it/items/it"}

\* Visitors navigating a build of each brand identifier.
NextNavigate ==
    \/ RootPage
    \/ \E path \in NavPaths : Navigate(path)
    \/ \E i \in 1..Len(allLocales) : switchLocale(allLocales[i])
    \/ LocaleSwitcher

SpecNavigate == Init /\ [][NextNavigate]_vars

\* What a list request of a component comes to: fetch or response.json()
\* rejects, or a JSON body with success true or false.
ListResponses ==
    {[kind |-> "rejects", success |-> FALSE, items |-> 0, error |-> ""],
     [kind |-> "response", success |-> TRUE, items |-> 2, error |-> ""],
     [kind |-> "response", success |-> TRUE, items |-> 1, error |-> ""],
     [kind |-> "response", success |-> FALSE, items |-> 0,
      error |-> "Failed to fetch data from third-party API"],
     [kind |-> "response", success |-> FALSE, items |-> 0, error |-> ""]}

\* What a create request comes to; label: data.data.name or data.data.id.
CreateResponses ==
    {[kind |-> "rejects", success |-> FALSE, label |-> "", error |-> ""],
     [kind |-> "response", success |-> TRUE, label |-> "Al", error |-> ""],
     [kind |-> "response", success |-> FALSE, label |-> "",
      error |-> "Name and email are required"],
     [kind |-> "response", success |-> FALSE, label |-> "", error |-> ""]}

\* The two fields of the form of a component: filled or empty.
FormFields ==
    {<<JSString("Al"), JSString("al@example.com")>>,
     <<JSString(""), JSString("al@example.com")>>,
     <<JSString("Al"), null>>}

\* A mounted client component, its controls and the answers to its requests.
NextClient ==
    \/ \E c \in Components : Mount(c)
    \/ fetchUsers
    \/ fetchPosts
    \/ \E f \in FormFields : handleSubmit(f[1], f[2])
    \/ \E kind \in {"list", "refresh"}, res \in ListResponses : ListResponds(kind, res)
    \/ \E res \in CreateResponses, resetThrows \in BOOLEAN : CreateResponds(res, resetThrows)

SpecClient == InitMutate /\ [][NextClient]_vars

-----------------------------------------------------------------------------
(* Properties                                                              *)

\* The raw identifier is undefined, empty or no configured key.
UnconfiguredId(raw) == ~Truthy(raw) \/ raw.val \notin BrandIds

DoneProcs == {p \in Procs : inv[p].pc = "done"}

\* Invocations that ended because a revalidatePath call threw.
FailedProcs == {p \in DoneProcs : inv[p].failedAt > 0}

\* Invocations that ended with the handler's success result.
SucceededProcs ==
    {p \in DoneProcs : inv[p].result.kind \in {"response", "value"} /\ inv[p].result.success}

\* C1: for every raw identifier that is undefined, the empty string or no
\* configured key, the brand a page render gets from getCurrentBrand is the
\* 'brand-a' record.
C1_UnconfiguredIdGivesBrandA ==
    (page.rendered /\ UnconfiguredId(NEXT_PUBLIC_BRAND)) => page.brand = brands["brand-a"]

\* C2: for every configured key k, getCurrentBrand returns exactly the table
\* entry stored under k, whose id is k.
C2_ConfiguredKeyGivesItsRecord ==
    \A k \in BrandIds :
        (page.rendered /\ NEXT_PUBLIC_BRAND = JSString(k)) =>
            /\ page.brand = brands[k]
            /\ page.brand.id = k

C2_Witness ==
    /\ page.rendered
    /\ NEXT_PUBLIC_BRAND = JSString("brand-b")
    /\ page.brand.id = "brand-b"

\* C3: whenever the active brand is a configured brand record, the locale the
\* request-config function settles on is a member of that brand's
\* supportedLocales, for every requested locale.
C3_ResolvedLocaleIsSupported ==
    (cfg.called /\ IsBrandConfig(getCurrentBrand)) =>
        /\ cfg.error = "none"
        /\ Includes(getCurrentBrand.supportedLocales, cfg.locale)

C3_Witness ==
    /\ cfg.called
    /\ NEXT_PUBLIC_BRAND = JSString("brand-c")
    /\ cfg.requestLocale = JSString("es")
    /\ cfg.locale = JSString("en")

\* C4: a requested locale that is defined and a member of the active brand's
\* supportedLocales is returned unchanged; in particular the brand's own
\* defaultLocale resolves to itself.
C4_SupportedLocaleIsKept ==
    (/\ cfg.called
     /\ IsBrandConfig(getCurrentBrand)
     /\ Truthy(cfg.requestLocale)
     /\ Includes(getCurrentBrand.supportedLocales, cfg.requestLocale))
    => cfg.locale = cfg.requestLocale

C4_Witness ==
    /\ cfg.called
    /\ NEXT_PUBLIC_BRAND = JSString("brand-b")
    /\ cfg.requestLocale = JSString("de")
    /\ cfg.locale = JSString("de")

\* C5: a requested locale that is absent or no member of the active brand's
\* supportedLocales resolves to the brand's defaultLocale; brand-b with
\* requested locale 'fr' resolves to 'en'.
C5_UnsupportedLocaleGivesBrandDefault ==
    /\ (/\ cfg.called
        /\ IsBrandConfig(getCurrentBrand)
        /\ \/ cfg.requestLocale = undefined
           \/ ~Includes(getCurrentBrand.supportedLocales, cfg.requestLocale))
       => cfg.locale = JSString(getCurrentBrand.defaultLocale)
    /\ (/\ cfg.called
        /\ NEXT_PUBLIC_BRAND = JSString("brand-b")
        /\ cfg.requestLocale = JSString("fr"))
       => cfg.locale = JSString("en")

C5_Witness ==
    /\ cfg.called
    /\ NEXT_PUBLIC_BRAND = JSString("brand-b")
    /\ cfg.requestLocale = JSString("fr")
    /\ cfg.locale = JSString("en")

\* C6: every record of the brand table has a non-empty supportedLocales list
\* that contains the record's own defaultLocale.
C6_DefaultLocaleIsSupported ==
    \A k \in DOMAIN brandsObj :
        /\ Len(brandsObj[k].supportedLocales) > 0
        /\ Includes(brandsObj[k].supportedLocales, JSString(brandsObj[k].defaultLocale))

C6_Witness ==
    /\ DOMAIN brandsObj = BrandIds
    /\ page.rendered
    /\ IsBrandConfig(page.brand)
    /\ page.brand = brandsObj["brand-c"]
    /\ Includes(page.brand.supportedLocales, JSString(page.brand.defaultLocale))

\* C7: a delete mutation (deleteUser, DELETE /api/users/[id]) with a non-empty
\* user id that completes successfully has invalidated exactly the paths
\* '/users', '/users/<id>' and '/': each of them, and no other path.
C7_DeleteInvalidatesListDetailRoot ==
    \A p \in SucceededProcs :
        (inv[p].handler \in {"deleteUser", "DELETE"} /\ inv[p].id.val # "") =>
            /\ Range(inv[p].calls) = {"/users", "/users/" \o inv[p].id.val, "/"}
            /\ Range(inv[p].calls) \subseteq stale

C7_Witness ==
    \E p \in SucceededProcs, q \in SucceededProcs :
        /\ inv[p].handler = "deleteUser" /\ inv[p].id = JSString("42")
        /\ inv[q].handler = "DELETE" /\ inv[q].id = JSString("7")
        /\ {"/users/42", "/users/7"} \subseteq stale

\* C8: a create mutation (createUser, POST /api/users) that completes
\* successfully has invalidated exactly the paths '/users' and '/', and no
\* single-entity detail path.
C8_CreateInvalidatesListRoot ==
    \A p \in SucceededProcs :
        inv[p].handler \in {"createUser", "POST"} =>
            /\ Range(inv[p].calls) = {"/users", "/"}
            /\ Range(inv[p].calls) \subseteq stale

C8_Witness ==
    \E p \in SucceededProcs, q \in SucceededProcs :
        /\ inv[p].handler = "createUser"
        /\ inv[q].handler = "POST" /\ inv[q].result.status = 201
        /\ stale = {"/users", "/"}

NoDuplicates(seq) == \A i, j \in 1..Len(seq) : seq[i] = seq[j] => i = j

\* C11: in every execution of a mutation handler revalidatePath is called at
\* most once for each path, also after a failure, and in every successful
\* execution exactly once for each path of the handler's invalidation set.
C11_EachPathAtMostOnce ==
    \A p \in Procs :
        /\ NoDuplicates(inv[p].calls)
        /\ p \in SucceededProcs =>
              /\ Range(inv[p].calls) = Range(PathsOf(inv[p]))
              /\ Len(inv[p].calls) = Cardinality(Range(PathsOf(inv[p])))

C11_Witness ==
    \E p \in FailedProcs, q \in SucceededProcs :
        /\ inv[p].failedAt = 1 /\ Len(inv[p].calls) = 1
        /\ inv[q].handler = "DELETE" /\ Len(inv[q].calls) = 3

\* C12: no handler emits an invalidation signal before its simulated data
\* mutation, delay included, has completed: revalidatePath is called, and a
\* path becomes stale, only in a step of a handler that has logged its
\* mutation and was waiting for its delay to end.
C12_NoInvalidationBeforeMutation ==
    [][/\ \A p \in Procs :
             (inv'[p].calls # inv[p].calls /\ inv'[p].calls # <<>>) =>
                 (inv[p].pc = "delay" /\ inv[p].mutated /\ inv[p].calls = <<>>)
       /\ stale' # stale =>
             \E p \in Procs :
                 /\ inv[p].pc = "delay" /\ inv[p].mutated
                 /\ stale' \ stale \subseteq Range(inv'[p].calls)]_vars

C12_Witness ==
    \E p \in Procs, q \in SucceededProcs :
        /\ inv[p].pc = "delay" /\ inv[p].mutated /\ inv[p].handler = "createUser"
        /\ inv[p].calls = <<>>
        /\ inv[q].handler = "DELETE"
        /\ stale = Range(inv[q].calls)

\* The outcomes (result and revalidatePath calls) of invocation i when it is
\* the only thing running: success at either timestamp, or a failure at any
\* of its calls.
SoloOutcomes(i) ==
    {[result |-> SuccessResult(i, now), calls |-> PathsOf(i)] : now \in Timestamps}
    \cup
    {[result |-> FailureResult(i), calls |-> Prefix(PathsOf(i), k)] :
        k \in 1..Len(PathsOf(i))}

\* The paths invocation i has invalidated: those of its calls that returned.
Invalidated(i) ==
    IF i.failedAt = 0 THEN Range(i.calls) ELSE Range(Prefix(i.calls, i.failedAt - 1))

\* The invocations that end in the step.
Ending == {p \in Procs : inv[p].pc # "done" /\ inv'[p].pc = "done"}

\* C13: under every interleaving of mutation handlers and page renders each
\* handler's response and emitted path set are among those of the same
\* invocation running alone, each render's brand and locale are those the
\* build and the requested locale determine, a step of one invocation leaves
\* the others and the renders as they are, and the stale paths grow in each
\* step by exactly the paths of the handler that ends in it (so that in the
\* end they are the union of the handlers' sets).
C13_InterleavingIndependence ==
    /\ [](/\ \A p \in DoneProcs :
                /\ [result |-> inv[p].result, calls |-> inv[p].calls] \in SoloOutcomes(inv[p])
                /\ Invalidated(inv[p]) \subseteq stale
          /\ page.rendered => page.brand = brands["brand-b"]
          /\ cfg.called =>
                cfg.locale = IF cfg.requestLocale = JSString("de")
                             THEN JSString("de") ELSE JSString("en"))
    /\ [][/\ \A p, q \in Procs : (inv'[p] # inv[p] /\ q # p) => inv'[q] = inv[q]
          /\ inv' # inv => (cfg' = cfg /\ page' = page)
          /\ (cfg' # cfg \/ page' # page) => (inv' = inv /\ stale' = stale)
          /\ stale' = stale \cup UNION {Invalidated(inv'[p]) : p \in Ending}]_vars

C13_Witness ==
    \E p \in SucceededProcs, q \in FailedProcs :
        /\ inv[p].handler = "DELETE"
        /\ inv[q].handler = "deleteUser" /\ inv[q].failedAt = 3
        /\ stale = {"/users", "/users/42", "/"}
        /\ cfg.called /\ cfg.requestLocale = JSString("fr")
        /\ page.rendered

\* C14: the path set a mutation emits is a function of the handler and the
\* entity id only: two successful runs of the same handler with the same id
\* emit the same set, whatever the time of the run, the id POST generates, the
\* name and email, and the paths already stale.
C14_PathSetDependsOnKindAndIdOnly ==
    \A p, q \in SucceededProcs :
        (inv[p].handler = inv[q].handler /\ inv[p].id = inv[q].id) =>
            Range(inv[p].calls) = Range(inv[q].calls)

C14_Witness ==
    \E p, q \in SucceededProcs :
        /\ inv[p].handler = "POST" /\ inv[q].handler = "POST"
        /\ inv[p].result.data[1] # inv[q].result.data[1]
        /\ inv[p].name # inv[q].name
        /\ "/users/7" \in stale
        /\ Range(inv[p].calls) = Range(inv[q].calls)

-----------------------------------------------------------------------------
\* C15: the brand configuration table is never modified: after any sequence
\* of brand resolutions, locale resolutions, theme-CSS generations, page
\* renders and mutation handlers, every brand record has the field values
\* it had at process start.
C15_BrandTableNeverModified ==
    \A k \in BrandIds :
        /\ k \in DOMAIN brandsObj
        /\ \A f \in DOMAIN brands[k] :
              f \in DOMAIN brandsObj[k] /\ brandsObj[k][f] = brands[k][f]

\* A locale resolution, a page render, a theme, a locale switcher and a
\* completed mutation handler have all taken place.
C15_Witness ==
    /\ cfg.called
    /\ page.rendered
    /\ css.generated
    /\ switcher.rendered /\ switcher.error = "none"
    /\ SucceededProcs # {}
    /\ stale # {}
    /\ brandsObj = brands

-----------------------------------------------------------------------------
\* C16: brand resolution and locale resolution always terminate with a value
\* and never surface an error to the caller, for every value of the brand
\* identifier and every requested locale, the loading of the message catalog
\* of the resolved locale included.
C16_ResolutionNeverSurfacesAnError ==
    cfg.called =>
        /\ cfg.error = "none"
        /\ cfg.locale # undefined
        /\ cfg.messages = "loaded"

-----------------------------------------------------------------------------
\* C17: locale fallback is ordered: for an absent or unsupported requested
\* locale the resolver uses the active brand's defaultLocale, and the global
\* default locale 'en' only when the brand's defaultLocale is empty or
\* missing; the global default is never chosen over a non-empty brand
\* default.
C17_FallbackIsBrandDefaultThenGlobal ==
    (/\ cfg.called
     /\ \/ ~Truthy(cfg.requestLocale)
        \/ getBrandLocales = undefined
        \/ ~Includes(getBrandLocales.items, cfg.requestLocale))
    => cfg.locale =
          IF StringField(getCurrentBrand, "defaultLocale") \notin {undefined, JSString("")}
          THEN StringField(getCurrentBrand, "defaultLocale")
          ELSE JSString(defaultLocale)

-----------------------------------------------------------------------------
\* The invalidation set of a mutation: the list page and the root page, and
\* for a delete the detail page of the deleted user.
InvalidationSet(i) ==
    IF i.handler \in {"DELETE", "deleteUser"}
    THEN {"/users", "/", "/users/" \o i.id.val}
    ELSE {"/users", "/"}

\* C18: a mutation handler returns its success result (201 from POST
\* /api/users, success:true from DELETE /api/users/[id], createUser and
\* deleteUser) only after every path of its invalidation set has been
\* invalidated: no execution reaches a success response with a path of the
\* set still not invalidated.
C18_SuccessOnlyAfterEveryPathInvalidated ==
    \A p \in DoneProcs :
        (inv[p].result.success /\ inv[p].result.kind \in {"response", "value"}) =>
            /\ inv[p].failedAt = 0
            /\ InvalidationSet(inv[p]) \subseteq Invalidated(inv[p])
            /\ InvalidationSet(inv[p]) \subseteq stale
            /\ IsRoute(inv[p]) =>
                  inv[p].result.status = (IF inv[p].handler = "POST" THEN 201 ELSE 200)

\* A DELETE has answered 200 with its detail path stale while a POST of
\* another request context is still in its delay.
C18_Witness ==
    \E p \in SucceededProcs, q \in Procs :
        /\ inv[p].handler = "DELETE" /\ inv[p].result.status = 200
        /\ inv[q].pc = "delay" /\ inv[q].handler = "POST"
        /\ "/users/" \o inv[p].id.val \in stale

-----------------------------------------------------------------------------
\* C19: read-only handlers never invalidate a path: GET /api/users,
\* GET /api/users/[id] and GET /api/external, and also POST /api/external
\* and incrementCounter, emit no invalidation signal in any execution: a
\* step in which one of them answers leaves the stale paths and the calls of
\* every mutation handler as they were.
C19_ReadOnlyHandlersNeverInvalidate ==
    [][served' # served => (stale' = stale /\ inv' = inv)]_vars

\* A read-only handler has answered while a mutation handler is in its delay
\* and nothing has been invalidated.
C19_Witness ==
    /\ served.handler = "GET /api/users/[id]"
    /\ served.status = 200
    /\ \E p \in Procs : inv[p].pc = "delay"
    /\ stale = {}

-----------------------------------------------------------------------------
\* The request of invocation i does not pass the handler's input validation:
\* a POST whose JSON body has no or an empty name or email, a createUser
\* whose name is missing or blank or whose email is missing or has no '@', a
\* deleteUser whose userId is empty.
FailsValidation(i) ==
    CASE i.handler = "POST" ->
           /\ i.json
           /\ \/ i.name \in {undefined, JSString("")}
              \/ i.email \in {undefined, JSString("")}
      [] i.handler = "createUser" ->
           \/ i.name \in {null, undefined}
           \/ \A k \in 1..Len(i.name.val) : SubSeq(i.name.val, k, k) = " "
           \/ i.email \in {null, undefined}
           \/ \A k \in 1..Len(i.email.val) : SubSeq(i.email.val, k, k) # "@"
      [] i.handler = "deleteUser" -> i.id = JSString("")
      [] OTHER -> FALSE

\* C20: a mutation request rejected by input validation has no effect: POST
\* /api/users with missing name or email returns status 400 with
\* success:false, createUser with a blank name or an email without '@' and
\* deleteUser with an empty userId return success:false, and in each of these
\* cases no path is invalidated and the simulated mutation is not performed.
C20_RejectedMutationHasNoEffect ==
    /\ [](\A p \in Procs :
            FailsValidation(inv[p]) =>
                /\ inv[p].pc = "done"
                /\ ~inv[p].mutated
                /\ inv[p].calls = <<>> /\ inv[p].failedAt = 0
                /\ ~inv[p].result.success
                /\ inv[p].result.kind = (IF IsRoute(inv[p]) THEN "response" ELSE "value")
                /\ inv[p].result.status = (IF IsRoute(inv[p]) THEN 400 ELSE 0))
    /\ [][\A p \in Procs :
            (inv[p].pc = "idle" /\ FailsValidation(inv'[p])) => stale' = stale]_vars

\* A createUser refused for its email and a POST refused for its missing
\* name, after a deletion has invalidated its paths.
C20_Witness ==
    \E p \in Procs, q \in Procs :
        /\ inv[p].handler = "createUser" /\ inv[p].email = JSString("al.example")
        /\ inv[p].result.text = "Valid email is required"
        /\ inv[q].handler = "POST" /\ inv[q].name = undefined
        /\ inv[q].result.status = 400
        /\ stale = {"/users", "/", "/users/42"}

-----------------------------------------------------------------------------
\* The invocation passed its handler's validation: the simulated mutation
\* was performed.
Accepted(i) == i.mutated

\* A form field and a JSON property hold the same input: both missing, or the
\* same string.
SameInput(a, b) == (a \in {null, undefined} /\ b \in {null, undefined}) \/ a = b

\* C21: the form-action and REST variants of the same mutation are
\* equivalent: for every (name, email) input createUser and POST /api/users
\* agree on whether the input is accepted and, when accepted, invalidate the
\* same path set; for every user id deleteUser and DELETE /api/users/[id]
\* agree on acceptance and invalidate the same path set.
C21_FormActionAndRestVariantsAgree ==
    \A p \in Procs, q \in Procs :
        /\ (/\ inv[p].handler = "createUser" /\ inv[q].handler = "POST" /\ inv[q].json
            /\ SameInput(inv[p].name, inv[q].name)
            /\ SameInput(inv[p].email, inv[q].email))
           => /\ Accepted(inv[p]) <=> Accepted(inv[q])
              /\ (p \in SucceededProcs /\ q \in SucceededProcs)
                    => Range(inv[p].calls) = Range(inv[q].calls)
        /\ (/\ inv[p].handler = "deleteUser" /\ inv[q].handler = "DELETE"
            /\ inv[p].id = inv[q].id)
           => /\ Accepted(inv[p]) <=> Accepted(inv[q])
              /\ (p \in SucceededProcs /\ q \in SucceededProcs)
                    => Range(inv[p].calls) = Range(inv[q].calls)

-----------------------------------------------------------------------------
\* C22: for every string value of the brand identifier, the strings that
\* name inherited object properties ('constructor', 'toString', '__proto__')
\* included, the value returned by getCurrentBrand is one of the three
\* configured brand records: its id is a configured key and its
\* supportedLocales is a non-empty list, so getBrandLocales returns a locale
\* list.
C22_EveryIdentifierGivesABrandRecord ==
    (page.rendered /\ NEXT_PUBLIC_BRAND # undefined) =>
        /\ IsBrandConfig(page.brand)
        /\ page.brand \in {brands[k] : k \in BrandIds}
        /\ Len(page.brand.supportedLocales) > 0
        /\ getBrandLocales # undefined

-----------------------------------------------------------------------------
\* C23: the global default locale 'en', the target of the root page's
\* redirect to '/<defaultLocale>', is a member of supportedLocales of every
\* configured brand, so for every active brand the locale of the redirect
\* target is resolved unchanged.
C23_RedirectTargetIsResolvedUnchanged ==
    /\ \A k \in BrandIds : Includes(brandsObj[k].supportedLocales, JSString(defaultLocale))
    /\ router.from = "/" =>
          /\ router.pathname = "/" \o defaultLocale
          /\ cfg.requestLocale = JSString(defaultLocale)
          /\ cfg.error = "none"
          /\ cfg.locale = JSString(defaultLocale)

-----------------------------------------------------------------------------
\* C24: the list allLocales, used for routing, equals the union of
\* supportedLocales over all configured brands: every locale supported by
\* some brand is in allLocales and every element of allLocales is supported
\* by at least one brand.
C24_AllLocalesIsTheUnionOfBrandLocales ==
    /\ \A k \in BrandIds : \A i \in 1..Len(brandsObj[k].supportedLocales) :
          \E j \in 1..Len(allLocales) : allLocales[j] = brandsObj[k].supportedLocales[i]
    /\ \A j \in 1..Len(allLocales) : \E k \in BrandIds :
          Includes(brandsObj[k].supportedLocales, JSString(allLocales[j]))

\* A page routed under the last element of allLocales is shown in that
\* locale by the one brand that supports it.
C24_Witness ==
    /\ router.pathname = "/" \o allLocales[Len(allLocales)]
    /\ NEXT_PUBLIC_BRAND = JSString("brand-c")
    /\ cfg.locale = JSString("zh")

-----------------------------------------------------------------------------
\* C25: for every active brand the LocaleSwitcher offers exactly the locales
\* of that brand's supportedLocales, no locale of another brand and none
\* missing, and each offered locale has a display entry (name and flag) under
\* that brand in localeConfig.
C25_SwitcherOffersTheBrandLocales ==
    switcher.rendered =>
        /\ switcher.error = "none"
        /\ IsBrandConfig(getCurrentBrand)
        /\ {switcher.options[i].value : i \in 1..Len(switcher.options)}
              = {getCurrentBrand.supportedLocales[i] :
                    i \in 1..Len(getCurrentBrand.supportedLocales)}
        /\ \A i \in 1..Len(switcher.options) :
              /\ switcher.options[i].config # undefined
              /\ switcher.options[i].config =
                    localeConfig[getCurrentBrand.id][switcher.options[i].value]
              /\ switcher.options[i].config.name # ""
              /\ switcher.options[i].config.flag # ""

-----------------------------------------------------------------------------
\* What follows the locale segment of a pathname: '' for '/<locale>'.
RestOfPath(path) == SubSeq(path, 2 + Len(LocaleSegment(path)), Len(path))

\* C26: for every page state (current pathname, active resolved locale)
\* reachable under a brand, a page whose URL locale segment was unsupported
\* and was replaced by the resolver's fallback included, switchLocale(N)
\* navigates to a path that consists of the single leading segment '/N'
\* followed by the current path's non-locale remainder unchanged, also when
\* the remainder contains the old locale code.
C26_SwitchReplacesTheLocaleSegment ==
    router.newLocale # "" =>
        \/ router.pathname = "/" \o router.newLocale \o RestOfPath(router.from)
        \/ RestOfPath(router.from) = "" /\ router.pathname = "/" \o router.newLocale \o "/"

-----------------------------------------------------------------------------
\* The third party was called and did not answer with an OK status: fetch
\* threw, or response.ok is false.
UpstreamFailed(s) ==
    /\ s.upstream # undefined
    /\ s.upstream.kind = "rejects" \/ ~s.upstream.ok

\* C27: the third-party proxy never forwards an upstream failure as success:
\* when the upstream call returns a non-OK status or throws, GET and POST
\* /api/external respond with status 500 and success:false; POST
\* /api/external with a missing title or body responds 400 with success:false
\* without calling the upstream API; success:true is returned only after an
\* OK upstream response.
C27_UpstreamFailureIsNeverSuccess ==
    served.handler \in {"GET /api/external", "POST /api/external"} =>
        /\ UpstreamFailed(served) => (served.status = 500 /\ ~served.success)
        /\ (/\ served.handler = "POST /api/external"
            /\ served.request.json
            /\ \/ served.request.title \in {undefined, JSString("")}
               \/ served.request.body \in {undefined, JSString("")})
           => /\ served.status = 400 /\ ~served.success
              /\ served.fetched = undefined /\ served.upstream = undefined
        /\ served.success =>
              /\ served.upstream # undefined
              /\ served.upstream.kind = "response" /\ served.upstream.ok
              /\ served.status = (IF served.handler = "POST /api/external" THEN 201 ELSE 200)

\* The third party has answered the proxied GET with 404.
C27_Witness ==
    /\ served.handler = "GET /api/external"
    /\ served.upstream # undefined
    /\ served.upstream.status = 404
    /\ served.status = 500
    /\ served.details = "Third-party API error: 404"

-----------------------------------------------------------------------------
ClientFields == {"id", "title", "body", "userId"}

\* Two upstream bodies are both a list or both a single object and agree on
\* id, title, body and userId of every item.
AgreeOnClientFields(d1, d2) ==
    IF d1 = null \/ d2 = null THEN d1 = d2
    ELSE /\ d1.type = d2.type
         /\ IF d1.type = "array"
            THEN /\ Len(d1.items) = Len(d2.items)
                 /\ \A i \in 1..Len(d1.items) : \A f \in ClientFields :
                       Pick(d1.items[i], f) = Pick(d2.items[i], f)
            ELSE \A f \in ClientFields : Pick(d1, f) = Pick(d2, f)

\* GET /api/external has answered after the third party sent a JSON body.
GotUpstreamJson(s) ==
    /\ s.handler = "GET /api/external"
    /\ s.upstream # undefined
    /\ s.upstream.kind = "response" /\ s.upstream.ok

\* C28: the data returned by GET /api/external depends only on the id,
\* title, body and userId fields of the upstream items: two upstream
\* responses that agree on these four fields of every item, and on being a
\* list or a single object, yield identical response data, so no other
\* upstream field reaches the client.
C28_ResponseDependsOnFourFieldsOnly ==
    /\ [](GotUpstreamJson(served) /\ served.success =>
            IF served.data.type = "array"
            THEN \A i \in 1..Len(served.data.items) :
                    DOMAIN served.data.items[i] \subseteq ClientFields \cup {"type"}
            ELSE DOMAIN served.data \subseteq ClientFields \cup {"type"})
    /\ [][(/\ GotUpstreamJson(served) /\ GotUpstreamJson(served')
           /\ AgreeOnClientFields(served.upstream.data, served'.upstream.data))
          => /\ served'.data = served.data
             /\ served'.status = served.status]_vars

\* The proxy has answered for an upstream post that carries further fields.
C28_Witness ==
    /\ GotUpstreamJson(served)
    /\ served.upstream.data = UpstreamPostWithSecret
    /\ served.success
    /\ served.data.title = JSString("sunt aut")
    /\ "apiKey" \notin DOMAIN served.data

-----------------------------------------------------------------------------
====
